---- MODULE Spec2Model ----
(***************************************************************************)
(* Model of examples/drl2svg.go: the conversion of a Kicad drl file into   *)
(* concentric SVG circles.                                                 *)
(*                                                                         *)
(* Numbers.  Every float64 of the program is represented in fixed point,   *)
(* as the integer number of thousandths (1.0 is 1000): lengths in 1/1000   *)
(* mm, raw file values in 1/1000 of the file's unit, the factors 25.4,     *)
(* 0.45 and 0.5 as 25400, 450 and 500.  The inputs below are chosen so     *)
(* that every product the program forms is a whole number of thousandths,  *)
(* so the arithmetic of the model is the exact arithmetic of the reals;    *)
(* binary rounding of float64 is not modelled.                             *)
(*                                                                         *)
(* Strings.  A tool token "T<digits>" is represented by its digit          *)
(* sequence, <<0, 1>> for "T01".  Sscanf's %d and fmt.Sprint's decimal     *)
(* formatting are modelled by Atoi and Itoa.                               *)
(***************************************************************************)
EXTENDS Integers, Sequences, FiniteSets

VARIABLES
    bitSize,          \* *bitSize, the --bit-size flag (line 23)
    factor,           \* factor (line 49)
    tools,            \* tools, map from tool key to scaled diameter (line 43)
    toolRadius,       \* toolRadius (line 48)
    maxToolDiameter,  \* maxToolDiameter (line 48)
    holes,            \* holes (line 44)
    leftEdge, rightEdge, topEdge, bottomEdge,   \* line 50
    pc,               \* position of main: "scan", "open", "holes", "radii",
                      \* "draw", "done", "fatal"
    fatal,            \* which log.Fatalf ended the run: "none", "tool", "create"
    next,             \* index into holes of the loop of line 136
    radii,            \* radii (line 137)
    dr,               \* dr (line 138)
    i,                \* i (line 141)
    out,              \* the calls made on canvas, in order
    line,             \* line (line 57), the line sc.Scan delivered last
    nlines,           \* number of lines sc.Scan has delivered
    defined,          \* history: the token and the d (line 71) of every
                      \* tool definition accepted
    run,              \* which execution of the program this is: 1 or 2
    file,             \* the input file of a repeated execution
    firstRun          \* history: how the first execution ended

vars == <<bitSize, factor, tools, toolRadius, maxToolDiameter, holes,
          leftEdge, rightEdge, topEdge, bottomEdge, pc, fatal, next, radii,
          dr, i, out, line, nlines, defined, run, file, firstRun>>

----------------------------------------------------------------------------
\* Bounds and input alphabets.

\* Longest input file explored, in lines.
MaxLines == 5

\* Values of --bit-size explored: 0.3, 0.7 (the default), 1.0 and 2.54 mm.
BitSizes == {300, 700, 1000, 2540}

\* Digit strings of bare tool tokens: "T1", "T01", "T2".
ToolDigits == {<<1>>, <<0, 1>>, <<2>>}

\* Tool definition lines, as <<digits, raw diameter>>: T1C0.1, T1C1.0,
\* T1C3.0, T01C1.0, T2C3.0.
ToolDefs == {<<<<1>>, 100>>, <<<<1>>, 1000>>, <<<<1>>, 3000>>,
             <<<<0, 1>>, 1000>>, <<<<2>>, 3000>>}

\* Longest input file given to two executions, in lines.
MaxFile == 4

\* Raw coordinates of coordinate lines: X10Y10, X-2Y3.
RawCoords == {<<10000, 10000>>, <<-2000, 3000>>}

\* A line of the file.  kind "def" is "T<digits>C<a>", "bare" is "T<digits>",
\* "coord" is "X<a>Y<b>", "other" is any line none of the patterns match.
Line(k, ds, a, b) == [kind |-> k, digits |-> ds, a |-> a, b |-> b]

\* The value of line before the first sc.Scan.
NoLine == Line("", <<>>, 0, 0)

Lines ==
    {Line("METRIC", <<>>, 0, 0), Line("INCH", <<>>, 0, 0), Line("other", <<>>, 0, 0)}
    \cup {Line("def", t[1], t[2], 0) : t \in ToolDefs}
    \cup {Line("bare", ds, 0, 0) : ds \in ToolDigits}
    \cup {Line("coord", <<>>, c[1], c[2]) : c \in RawCoords}

----------------------------------------------------------------------------
\* Arithmetic and conversions.

\* The float64 1.0 (factor = 1.0, line 60) and the fixed-point unit.
One == 1000

\* 25.4 (line 64), 0.45 (line 138), 0.5 (line 79).
InchFactor == 25400
StepRatio == 450
Half == 500

\* The float64 product a * b.
Mul(a, b) == (a * b) \div One

\* Sscanf's %d on a digit string: its decimal value.
RECURSIVE Atoi(_)
Atoi(ds) ==
    IF ds = <<>> THEN 0
    ELSE 10 * Atoi(SubSeq(ds, 1, Len(ds) - 1)) + ds[Len(ds)]

\* fmt.Sprint of a non-negative int: its decimal digits, no leading zero.
RECURSIVE Itoa(_)
Itoa(n) == IF n < 10 THEN <<n>> ELSE Append(Itoa(n \div 10), n % 10)

\* fmt.Sprint("T", tool), line 75: the key under which a tool is stored.
ToolKey(ds) == Itoa(Atoi(ds))

----------------------------------------------------------------------------
\* The steps of main.

\* A faulty TooSmall: no tool is rejected.
TooSmallNever(param1, f, B) == FALSE

\* Line 68: the test that ends the run.
TooSmall(param1, f, B) == param1 < B

\* Line 71.
Scaled(param1, f) == Mul(param1, f)

\* A faulty NewMax: the latest definition always becomes the maximum.
NewMaxLatest(first, d, cur) == d

\* Lines 72-74.
NewMax(first, d, cur) == IF first \/ d > cur THEN d ELSE cur

\* A faulty CutRadius: the difference of the diameters, not its half.
CutRadiusWhole(d, B) == d - B

\* Line 79.
CutRadius(d, B) == Mul(d - B, Half)

\* A faulty LowEdge: an edge of 0 is taken to mean that no hole has been
\* recorded.
LowEdgeZeroIsUnset(first, cand, cur) ==
    IF cur = 0 \/ cand < cur THEN cand ELSE cur

\* A faulty LowEdge: the first hole is compared with the zero edge like
\* any other.
LowEdgeNoFirst(first, cand, cur) == IF cand < cur THEN cand ELSE cur

\* Lines 88-90 and 94-96: a lower edge.
LowEdge(first, cand, cur) == IF first \/ cand < cur THEN cand ELSE cur

\* Lines 91-93 and 97-99: an upper edge.
HighEdge(first, cand, cur) == IF first \/ cand > cur THEN cand ELSE cur

\* A faulty Step: the radius shrinks by the whole bit diameter.
StepWholeBit(B) == B

\* A faulty Step: the radius shrinks by half the intended step.
StepHalved(B) == Mul(StepRatio, B) \div 2

\* Line 138: the step of the radius loop.
Step(B) == Mul(StepRatio, B)

\* A faulty Positive: the radius loop runs while dr >= 0.
PositiveOrZero(x) == x >= 0

\* Line 138: the test of the radius loop.
Positive(x) == x > 0

\* Line 141: the first index of the drawing loop.
FirstIndex(rs) == Len(rs)

\* Line 141: the next index of the drawing loop.
NextIndex(k) == k - 1

\* A faulty Drawn: the radii are drawn in the order they were appended.
DrawnForward(rs, k) == rs[Len(rs) + 1 - k]

\* Line 142: radii[i], the radius drawn at index k.
Drawn(rs, k) == rs[k]

\* Line 142.
Circle(cx, cy, r) == [call |-> "Circle", cx |-> cx, cy |-> cy, r |-> r]

\* A faulty MarginHigh: the upper edges get no margin.
MarginHighNone(edge, m) == edge

\* Lines 113-116.
MarginLow(edge, m) == edge - m
MarginHigh(edge, m) == edge + m

\* Line 135.
Viewport(l, r, t, b) ==
    [call |-> "StartviewUnit", w |-> r - l, h |-> b - t, unit |-> "mm",
     x |-> l, y |-> t, vw |-> r - l, vh |-> b - t]

\* The end of an execution as an observer sees it: how it ended, at which
\* line, the holes, the extent and the calls made on canvas.
Outcome ==
    [pc |-> pc, fatal |-> fatal, at |-> nlines, holes |-> holes,
     extent |-> <<leftEdge, rightEdge, topEdge, bottomEdge>>, out |-> out]

NoOutcome ==
    [pc |-> "", fatal |-> "", at |-> 0, holes |-> <<>>,
     extent |-> <<0, 0, 0, 0>>, out |-> <<>>]

Init ==
    /\ bitSize \in BitSizes
    /\ factor = 0
    /\ tools = <<>>
    /\ toolRadius = 0
    /\ maxToolDiameter = 0
    /\ holes = <<>>
    /\ leftEdge = 0 /\ rightEdge = 0 /\ topEdge = 0 /\ bottomEdge = 0
    /\ pc = "scan"
    /\ fatal = "none"
    /\ next = 1
    /\ radii = <<>>
    /\ dr = 0
    /\ i = 0
    /\ out = <<>>
    /\ line = NoLine
    /\ nlines = 0
    /\ defined = {}
    /\ run = 1
    /\ file = <<>>
    /\ firstRun = NoOutcome

\* Lines 54-57: sc.Scan delivers the line l.
Scan(l) ==
    /\ pc = "scan"
    /\ nlines < MaxLines
    /\ line' = l
    /\ nlines' = nlines + 1

\* Lines 59-62.
Metric(l) ==
    /\ Scan(l)
    /\ l.kind = "METRIC"
    /\ factor' = One
    /\ UNCHANGED <<run, file, firstRun, radii, dr, i, bitSize, tools, toolRadius, maxToolDiameter, holes,
                   leftEdge, rightEdge, topEdge, bottomEdge, pc, fatal, next,
                   out, defined>>

\* A faulty Inch: the directive also empties the tool table.
InchForgetsTools(l) ==
    /\ Scan(l)
    /\ l.kind = "INCH"
    /\ factor' = InchFactor
    /\ tools' = <<>>
    /\ UNCHANGED <<run, file, firstRun, radii, dr, i, bitSize, toolRadius, maxToolDiameter, holes,
                   leftEdge, rightEdge, topEdge, bottomEdge, pc, fatal, next,
                   out, defined>>

\* Lines 63-66.
Inch(l) ==
    /\ Scan(l)
    /\ l.kind = "INCH"
    /\ factor' = InchFactor
    /\ UNCHANGED <<run, file, firstRun, radii, dr, i, bitSize, tools, toolRadius, maxToolDiameter, holes,
                   leftEdge, rightEdge, topEdge, bottomEdge, pc, fatal, next,
                   out, defined>>

\* A faulty Fatalf: the error is logged and the run goes on.
FatalfGoesOn(reason) == pc' = pc /\ fatal' = reason

\* What log.Fatalf (lines 69 and 123) does to the run: os.Exit(1).
Fatalf(reason) == pc' = "fatal" /\ fatal' = reason

\* Lines 67-77.
ToolDef(l) ==
    /\ Scan(l)
    /\ l.kind = "def"
    /\ IF TooSmall(l.a, factor, bitSize)
       THEN /\ Fatalf("tool")
            /\ UNCHANGED <<tools, maxToolDiameter, defined>>
       ELSE LET d == Scaled(l.a, factor)
                key == ToolKey(l.digits)
            IN  /\ maxToolDiameter' = NewMax(DOMAIN tools = {}, d, maxToolDiameter)
                /\ tools' = [k \in DOMAIN tools \cup {key} |->
                                IF k = key THEN d ELSE tools[k]]
                /\ defined' = defined \cup {[digits |-> l.digits, d |-> d]}
                /\ UNCHANGED <<pc, fatal>>
    /\ UNCHANGED <<run, file, firstRun, radii, dr, i, bitSize, factor, toolRadius, holes, leftEdge, rightEdge,
                   topEdge, bottomEdge, next, out>>

\* Line 78: the line, as a string, is a key of tools.
IsKnownTool(l) == l.kind = "bare" /\ l.digits \in DOMAIN tools

\* Lines 78-81.
ToolSelect(l) ==
    /\ Scan(l)
    /\ IsKnownTool(l)
    /\ toolRadius' = CutRadius(tools[l.digits], bitSize)
    /\ UNCHANGED <<run, file, firstRun, radii, dr, i, bitSize, factor, tools, maxToolDiameter, holes, leftEdge,
                   rightEdge, topEdge, bottomEdge, pc, fatal, next, out,
                   defined>>

\* Lines 82-100.
Coordinate(l) ==
    /\ Scan(l)
    /\ l.kind = "coord"
    /\ LET h == [Radius |-> toolRadius,
                 Cx |-> Mul(l.a, factor),
                 Cy |-> Mul(l.b, factor)]
           first == Len(holes) = 0
       IN  /\ leftEdge' = LowEdge(first, h.Cx - toolRadius, leftEdge)
           /\ rightEdge' = HighEdge(first, h.Cx + toolRadius, rightEdge)
           /\ topEdge' = LowEdge(first, h.Cy - toolRadius, topEdge)
           /\ bottomEdge' = HighEdge(first, h.Cy + toolRadius, bottomEdge)
           /\ holes' = Append(holes, h)
    /\ UNCHANGED <<run, file, firstRun, radii, dr, i, bitSize, factor, tools, toolRadius, maxToolDiameter, pc,
                   fatal, next, out, defined>>

\* A faulty Ignored: a line that matches nothing resets the cut radius.
IgnoredResetsRadius(l) ==
    /\ Scan(l)
    /\ \/ l.kind = "other"
       \/ l.kind = "bare" /\ l.digits \notin DOMAIN tools
    /\ toolRadius' = 0
    /\ UNCHANGED <<run, file, firstRun, radii, dr, i, bitSize, factor, tools, maxToolDiameter,
                   holes, leftEdge, rightEdge, topEdge, bottomEdge, pc, fatal,
                   next, out, defined>>

\* Lines 101-106: no pattern matched, and the line is no key of tools.
Ignored(l) ==
    /\ Scan(l)
    /\ \/ l.kind = "other"
       \/ l.kind = "bare" /\ ~IsKnownTool(l)
    /\ UNCHANGED <<run, file, firstRun, radii, dr, i, bitSize, factor, tools, toolRadius, maxToolDiameter, holes,
                   leftEdge, rightEdge, topEdge, bottomEdge, pc, fatal, next,
                   out, defined>>

\* sc.Scan returns false (line 54), then lines 113-116.  The scope of line
\* (line 57) is the body of the loop, which ends here.
EndOfInput ==
    /\ pc = "scan"
    /\ line' = NoLine
    /\ leftEdge' = MarginLow(leftEdge, maxToolDiameter)
    /\ rightEdge' = MarginHigh(rightEdge, maxToolDiameter)
    /\ topEdge' = MarginLow(topEdge, maxToolDiameter)
    /\ bottomEdge' = MarginHigh(bottomEdge, maxToolDiameter)
    /\ pc' = "open"
    /\ UNCHANGED <<run, file, firstRun, radii, dr, i, bitSize, factor, tools, toolRadius, maxToolDiameter, holes,
                   fatal, next, out, nlines, defined>>

\* Lines 120-124: os.Create fails.
CreateFail ==
    /\ pc = "open"
    /\ Fatalf("create")
    /\ UNCHANGED <<run, file, firstRun, line, radii, dr, i, bitSize, factor, tools, toolRadius, maxToolDiameter, holes,
                   leftEdge, rightEdge, topEdge, bottomEdge, next, out, nlines,
                   defined>>

\* Lines 118-135.
Startview ==
    /\ pc = "open"
    /\ out' = Append(out, Viewport(leftEdge, rightEdge, topEdge, bottomEdge))
    /\ next' = 1
    /\ pc' = "holes"
    /\ UNCHANGED <<run, file, firstRun, line, bitSize, factor, tools, toolRadius, maxToolDiameter, holes,
                   leftEdge, rightEdge, topEdge, bottomEdge, fatal, radii, dr,
                   i, nlines, defined>>

\* Lines 136-138: the loop takes the next hole and starts its radius loop.
NextHole ==
    /\ pc = "holes"
    /\ next <= Len(holes)
    /\ radii' = <<>>
    /\ dr' = holes[next].Radius
    /\ pc' = "radii"
    /\ UNCHANGED <<run, file, firstRun, line, bitSize, factor, tools, toolRadius, maxToolDiameter, holes,
                   leftEdge, rightEdge, topEdge, bottomEdge, fatal, next, i,
                   out, nlines, defined>>

\* Lines 138-140: one iteration of the radius loop.
RadiusStep ==
    /\ pc = "radii"
    /\ Positive(dr)
    /\ radii' = Append(radii, dr)
    /\ dr' = dr - Step(bitSize)
    /\ UNCHANGED <<run, file, firstRun, line, bitSize, factor, tools, toolRadius, maxToolDiameter, holes,
                   leftEdge, rightEdge, topEdge, bottomEdge, pc, fatal, next,
                   i, out, nlines, defined>>

\* Lines 138 and 141: the radius loop ends and the drawing loop starts.
RadiiDone ==
    /\ pc = "radii"
    /\ ~Positive(dr)
    /\ i' = FirstIndex(radii)
    /\ pc' = "draw"
    /\ UNCHANGED <<run, file, firstRun, line, bitSize, factor, tools, toolRadius, maxToolDiameter, holes,
                   leftEdge, rightEdge, topEdge, bottomEdge, fatal, next,
                   radii, dr, out, nlines, defined>>

\* Lines 141-143: one iteration of the drawing loop.  Go counts from 0,
\* the sequences here from 1: i here is the program's i + 1.
Draw ==
    /\ pc = "draw"
    /\ i >= 1
    /\ out' = Append(out, Circle(holes[next].Cx, holes[next].Cy, Drawn(radii, i)))
    /\ i' = NextIndex(i)
    /\ UNCHANGED <<run, file, firstRun, line, bitSize, factor, tools, toolRadius, maxToolDiameter, holes,
                   leftEdge, rightEdge, topEdge, bottomEdge, pc, fatal, next,
                   radii, dr, nlines, defined>>

\* Lines 141 and 136: the drawing loop ends, on to the next hole.
DrawDone ==
    /\ pc = "draw"
    /\ i < 1
    /\ next' = next + 1
    /\ pc' = "holes"
    /\ UNCHANGED <<run, file, firstRun, line, bitSize, factor, tools, toolRadius, maxToolDiameter, holes,
                   leftEdge, rightEdge, topEdge, bottomEdge, fatal, radii, dr,
                   i, out, nlines, defined>>

\* Line 145.
End ==
    /\ pc = "holes"
    /\ next > Len(holes)
    /\ out' = Append(out, [call |-> "End"])
    /\ pc' = "done"
    /\ UNCHANGED <<run, file, firstRun, line, bitSize, factor, tools, toolRadius, maxToolDiameter, holes,
                   leftEdge, rightEdge, topEdge, bottomEdge, fatal, next,
                   radii, dr, i, nlines, defined>>

Next ==
    \/ \E l \in Lines : Metric(l)
    \/ \E l \in Lines : Inch(l)
    \/ \E l \in Lines : ToolDef(l)
    \/ \E l \in Lines : ToolSelect(l)
    \/ \E l \in Lines : Coordinate(l)
    \/ \E l \in Lines : Ignored(l)
    \/ EndOfInput
    \/ CreateFail
    \/ Startview
    \/ NextHole
    \/ RadiusStep
    \/ RadiiDone
    \/ Draw
    \/ DrawDone
    \/ End

Spec == Init /\ [][Next]_vars

----------------------------------------------------------------------------
\* Properties.  The definitions below restate the arithmetic on their own
\* (25.4 as 254/10, 0.45 as 45/100, a half as division by 2) and do not use
\* the operators of the steps above.

SetMin(S) == CHOOSE x \in S : \A y \in S : x <= y
SetMax(S) == CHOOSE x \in S : \A y \in S : x >= y

HoleIndices == 1..Len(holes)

\* The scaled diameter of a tool definition line under a factor.
InMillimetres(raw, f) == (raw * (f \div 100)) \div 10

\* The cut radius of a tool of diameter d.
HalfClearance(d) == (d - bitSize) \div 2

\* 0.45 x bit diameter.
StepLength == (45 * bitSize) \div 100

\* The line just scanned is a tool definition, and the run is where that
\* line left it.
AtDef == pc \in {"scan", "fatal"} /\ line.kind = "def"

\* The line just scanned is a bare tool token.
AtBare == pc = "scan" /\ line.kind = "bare"

\* C1: a tool definition whose scaled diameter (raw x factor, factor 0
\* before any unit directive) is below the bit diameter ends the run with
\* the fatal error, so every diameter in the tool table is at least the bit
\* diameter.
C1_SmallToolIsFatal ==
    /\ (AtDef /\ InMillimetres(line.a, factor) < bitSize) => fatal = "tool"
    /\ \A k \in DOMAIN tools : tools[k] >= bitSize

\* C2: after INCH, a tool definition whose scaled diameter 25.4 x raw is at
\* least the bit diameter is accepted and stored with diameter 25.4 x raw,
\* and selecting a stored tool sets the cut radius to (diameter - bit)/2.
C2_InchToolAccepted ==
    /\ (AtDef /\ factor = 25400 /\ (line.a * 254) \div 10 >= bitSize)
          => /\ fatal = "none"
             /\ ToolKey(line.digits) \in DOMAIN tools
             /\ tools[ToolKey(line.digits)] = (line.a * 254) \div 10
    /\ (AtBare /\ line.digits \in DOMAIN tools)
          => toolRadius = HalfClearance(tools[line.digits])

\* The circles drawn for the hole whose drawing loop has just ended: the
\* last Len(radii) calls.
Drawn_n == Len(radii)
Drawn_r(k) == out[Len(out) - Len(radii) + k].r

\* C3: the radii drawn for a hole of cut radius R are exactly the values
\* R - k x 0.45 x B above 0, in increasing order: the last is R, neighbours
\* differ by 0.45 x B, none is <= 0, the first is <= 0.45 x B.
C3_RadiiOfHole ==
    (pc = "draw" /\ i = 0) =>
        LET R == holes[next].Radius
            s == StepLength
            n == Drawn_n
        IN  /\ n < Len(out)
            /\ \A k \in 1..n :
                  /\ out[Len(out) - n + k].call = "Circle"
                  /\ Drawn_r(k) > 0
            /\ n > 0 => Drawn_r(n) = R /\ Drawn_r(1) <= s
            /\ \A k \in 1..(n - 1) : Drawn_r(k + 1) - Drawn_r(k) = s
            /\ {Drawn_r(k) : k \in 1..n} =
                  {x \in {R - k * s : k \in 0..((R \div s) + 1)} : x > 0}

\* A hole whose radius is ten steps exactly has been drawn.
C3_Witness ==
    /\ pc = "draw" /\ i = 0
    /\ holes[next].Radius = 10 * StepLength
    /\ Len(radii) = 10

\* C4: under METRIC and under INCH a tool definition whose scaled diameter
\* equals the bit diameter is accepted, selecting it sets the cut radius to
\* 0, and a hole of radius 0 is recorded and gets no circle.
C4_EqualDiameterAccepted ==
    /\ (AtDef /\ factor \in {1000, 25400}
              /\ InMillimetres(line.a, factor) = bitSize)
          => /\ fatal = "none"
             /\ ToolKey(line.digits) \in DOMAIN tools
             /\ tools[ToolKey(line.digits)] = bitSize
    /\ (AtBare /\ line.digits \in DOMAIN tools
               /\ tools[line.digits] = bitSize) => toolRadius = 0
    /\ (pc = "draw" /\ holes[next].Radius = 0) => radii = <<>>

\* C5: once a hole is recorded, the extent before the margin is the
\* minimum of cx - radius, the maximum of cx + radius, the minimum of
\* cy - radius and the maximum of cy + radius over the recorded holes.
C5_PreMarginExtent ==
    (pc = "scan" /\ Len(holes) >= 1) =>
        /\ leftEdge = SetMin({holes[k].Cx - holes[k].Radius : k \in HoleIndices})
        /\ rightEdge = SetMax({holes[k].Cx + holes[k].Radius : k \in HoleIndices})
        /\ topEdge = SetMin({holes[k].Cy - holes[k].Radius : k \in HoleIndices})
        /\ bottomEdge = SetMax({holes[k].Cy + holes[k].Radius : k \in HoleIndices})

\* Two holes are recorded, the first one entirely right of and below the
\* origin, the second one left of it.
C5_Witness ==
    /\ pc = "scan"
    /\ Len(holes) = 2
    /\ holes[1].Radius > 0
    /\ holes[1].Cx - holes[1].Radius > 0
    /\ holes[1].Cy - holes[1].Radius > 0
    /\ leftEdge < 0
    /\ rightEdge > 0

\* The largest scaled diameter of the tool definitions processed.
MaxDefined == IF defined = {} THEN 0 ELSE SetMax({e.d : e \in defined})

PreLeft ==
    IF holes = <<>> THEN 0
    ELSE SetMin({holes[k].Cx - holes[k].Radius : k \in HoleIndices})
PreRight ==
    IF holes = <<>> THEN 0
    ELSE SetMax({holes[k].Cx + holes[k].Radius : k \in HoleIndices})
PreTop ==
    IF holes = <<>> THEN 0
    ELSE SetMin({holes[k].Cy - holes[k].Radius : k \in HoleIndices})
PreBottom ==
    IF holes = <<>> THEN 0
    ELSE SetMax({holes[k].Cy + holes[k].Radius : k \in HoleIndices})

\* C6: maxToolDiameter is the largest scaled diameter of all the tool
\* definitions processed, and the extent handed to the output is the
\* extent before the margin moved outward by it on all four sides.
C6_MarginedExtent ==
    /\ maxToolDiameter = MaxDefined
    /\ pc \in {"open", "holes", "radii", "draw", "done"} =>
          /\ leftEdge = PreLeft - MaxDefined
          /\ rightEdge = PreRight + MaxDefined
          /\ topEdge = PreTop - MaxDefined
          /\ bottomEdge = PreBottom + MaxDefined
    /\ Len(out) >= 1 =>
          /\ out[1].call = "StartviewUnit"
          /\ out[1].x = PreLeft - MaxDefined
          /\ out[1].y = PreTop - MaxDefined
          /\ out[1].vw = (PreRight + MaxDefined) - (PreLeft - MaxDefined)
          /\ out[1].vh = (PreBottom + MaxDefined) - (PreTop - MaxDefined)

\* One hole at (10,10) of cut radius 1 from the only tool, of diameter 3:
\* the viewport starts at (6,6) and is 8 wide and 8 high.
C6_Witness ==
    /\ pc = "done"
    /\ holes = <<[Radius |-> 1000, Cx |-> 10000, Cy |-> 10000]>>
    /\ {e.d : e \in defined} = {3000}
    /\ out[1].x = 6000 /\ out[1].y = 6000
    /\ out[1].vw = 8000 /\ out[1].vh = 8000

\* C7, as claimed: with no hole the extent handed to the output is zero on
\* all four sides, of width and height 0.
C7_ZeroHolesZeroExtent ==
    (holes = <<>> /\ Len(out) >= 1) =>
        /\ out[1].x = 0 /\ out[1].y = 0
        /\ out[1].vw = 0 /\ out[1].vh = 0
        /\ leftEdge = 0 /\ rightEdge = 0 /\ topEdge = 0 /\ bottomEdge = 0

\* C7, amended: with no hole the extent stays zero while lines are read,
\* and the extent handed to the output is the zero extent moved outward by
\* maxToolDiameter: origin (-maxToolDiameter, -maxToolDiameter), width and
\* height 2 x maxToolDiameter.
C7_ZeroHolesMarginOnly ==
    /\ (pc = "scan" /\ holes = <<>>) =>
          leftEdge = 0 /\ rightEdge = 0 /\ topEdge = 0 /\ bottomEdge = 0
    /\ (holes = <<>> /\ Len(out) >= 1) =>
          /\ out[1].x = 0 - maxToolDiameter
          /\ out[1].y = 0 - maxToolDiameter
          /\ out[1].vw = 2 * maxToolDiameter
          /\ out[1].vh = 2 * maxToolDiameter

\* A run without holes whose tool definitions gave a non-zero margin has
\* drawn its viewport.
C7_Witness ==
    /\ holes = <<>>
    /\ Len(out) >= 1
    /\ defined # {}
    /\ out[1].vw > 0

\* The number of values R - k x s, k = 0, 1, ..., above 0.
NumCircles(R, s) == IF R <= 0 THEN 0 ELSE ((R - 1) \div s) + 1

\* The circles of one hole, innermost first.
HoleCircles(h) ==
    LET n == NumCircles(h.Radius, StepLength)
    IN  [j \in 1..n |-> [call |-> "Circle", cx |-> h.Cx, cy |-> h.Cy,
                         r |-> h.Radius - (n - j) * StepLength]]

\* The circles of the first k holes, hole by hole.
RECURSIVE CirclesUpTo(_)
CirclesUpTo(k) ==
    IF k = 0 THEN <<>> ELSE CirclesUpTo(k - 1) \o HoleCircles(holes[k])

ExpectedViewport ==
    [call |-> "StartviewUnit", w |-> rightEdge - leftEdge,
     h |-> bottomEdge - topEdge, unit |-> "mm", x |-> leftEdge, y |-> topEdge,
     vw |-> rightEdge - leftEdge, vh |-> bottomEdge - topEdge]

\* C8: a run that does not fail calls the viewport once, before any
\* circle, then draws each hole's circles, holes in file order and each
\* hole's circles innermost first with the hole's center, then ends once.
C8_OutputOrder ==
    LET body == <<ExpectedViewport>> \o CirclesUpTo(Len(holes))
    IN  /\ pc \in {"scan", "open"} => out = <<>>
        /\ pc \in {"holes", "radii", "draw"} =>
              /\ Len(out) >= 1
              /\ Len(out) <= Len(body)
              /\ out = SubSeq(body, 1, Len(out))
        /\ pc = "done" => out = body \o <<[call |-> "End"]>>

\* A run has ended that drew two holes with different centers and several
\* circles each.
C8_Witness ==
    /\ pc = "done"
    /\ Len(holes) = 2
    /\ holes[1].Cx # holes[2].Cx
    /\ holes[1].Radius > StepLength
    /\ holes[2].Radius > StepLength

\* C9: once the tool-diameter error has occurred, nothing has been and
\* nothing will be handed to the output, and no further line is read: the
\* run has stopped at the offending line.
C9_FatalStops ==
    fatal = "tool" =>
        /\ out = <<>>
        /\ pc = "fatal"
        /\ line.kind = "def"
        /\ line.a < bitSize
        /\ ~ENABLED Next

\* The error has occurred after a hole was recorded.
C9_Witness ==
    /\ fatal = "tool"
    /\ Len(holes) >= 1
    /\ holes[1].Radius > 0

\* C10: once a definition line T<digits>C<float> has been accepted, a bare
\* line with the same token T<digits>, leading zeros included, selects that
\* tool: the cut radius is (its stored diameter - bit diameter)/2.
C10_BareTokenSelects ==
    (AtBare /\ \E e \in defined : e.digits = line.digits) =>
        toolRadius = HalfClearance(tools[ToolKey(line.digits)])

\* The line just scanned is a coordinate line.
AtCoord == pc = "scan" /\ line.kind = "coord"

\* No unit directive and no tool selection has been processed: the factor
\* is 0, and the cut radius is 0 (under factor 0 a selection would give a
\* radius below 0).
NothingSet == factor = 0 /\ toolRadius = 0

ZeroHole == [Radius |-> 0, Cx |-> 0, Cy |-> 0]

\* C11: a coordinate line before any unit directive and any tool selection
\* does not fail; it records the hole (0,0) of radius 0, which as first
\* hole sets the extent to zero and is the hole later ones are compared
\* with, and for which no circle is drawn.
C11_DefaultHole ==
    /\ (AtCoord /\ NothingSet) =>
          /\ fatal = "none"
          /\ Len(holes) >= 1
          /\ holes[Len(holes)] = ZeroHole
          /\ Len(holes) = 1 =>
                leftEdge = 0 /\ rightEdge = 0 /\ topEdge = 0 /\ bottomEdge = 0
    /\ (pc = "scan" /\ Len(holes) >= 1 /\ holes[1] = ZeroHole) =>
          /\ leftEdge <= 0 /\ rightEdge >= 0
          /\ topEdge <= 0 /\ bottomEdge >= 0
    /\ (pc = "draw" /\ holes[next] = ZeroHole) => radii = <<>>
    /\ (pc = "done" /\ \A k \in HoleIndices : holes[k] = ZeroHole) =>
          Len(out) = 2

\* A run has ended whose first line was a coordinate line and which later
\* recorded a hole away from the origin.
C11_Witness ==
    /\ pc = "done"
    /\ Len(holes) = 2
    /\ holes[1] = ZeroHole
    /\ holes[2].Cx > 0
    /\ out[1].x = 0 - maxToolDiameter
    /\ out[1].vw = holes[2].Cx + 2 * maxToolDiameter

\* The step reads a line (lines 54-57).
ReadsLine == pc = "scan" /\ nlines' = nlines + 1

\* C13: the cut radius is 0 at first, a selection line sets it to
\* (diameter stored for that tool - bit diameter)/2, every other line
\* leaves it as it is, also a definition line that redefines the selected
\* tool, and a coordinate line records its hole with the cut radius
\* selected last; recorded holes never change.
C13_RadiusOfSelection ==
    /\ toolRadius = 0
    /\ [][ReadsLine =>
          /\ (line'.kind = "bare" /\ line'.digits \in DOMAIN tools) =>
                toolRadius' = HalfClearance(tools[line'.digits])
          /\ ~(line'.kind = "bare" /\ line'.digits \in DOMAIN tools) =>
                toolRadius' = toolRadius
          /\ line'.kind = "coord" =>
                /\ Len(holes') = Len(holes) + 1
                /\ holes'[Len(holes')].Radius = toolRadius
          /\ \A k \in HoleIndices : holes'[k] = holes[k]
         ]_vars

\* A hole has been recorded after the selected tool was redefined: its
\* radius is the one selected, which no tool of the table gives any more.
C13_Witness ==
    /\ AtCoord
    /\ toolRadius > 0
    /\ holes[Len(holes)].Radius = toolRadius
    /\ DOMAIN tools # {}
    /\ \A k \in DOMAIN tools : HalfClearance(tools[k]) # toolRadius

\* C14: a line that none of the four rules matches, a bare tool token that
\* is no key of the tool table included, does not end the run and leaves
\* the factor, the tool table, the cut radius, the largest diameter, the
\* holes and the extent as they are.
C14_IgnoredLine ==
    [][(ReadsLine /\ \/ line'.kind = "other"
                     \/ line'.kind = "bare" /\ line'.digits \notin DOMAIN tools)
          => /\ pc' = "scan"
             /\ fatal' = fatal
             /\ UNCHANGED <<factor, tools, toolRadius, maxToolDiameter, holes,
                            leftEdge, rightEdge, topEdge, bottomEdge, out>>
      ]_vars

\* A bare token that is no key of the table has been read after a tool was
\* selected and a hole recorded.
C14_Witness ==
    /\ AtBare
    /\ line.digits \notin DOMAIN tools
    /\ DOMAIN tools # {}
    /\ toolRadius > 0
    /\ Len(holes) >= 1

AtUnit == pc = "scan" /\ line.kind \in {"METRIC", "INCH"}

\* C15: a unit directive, wherever it stands in the input, changes the
\* factor and nothing else: the tool table, the cut radius, the largest
\* diameter, the holes and the extent stay as computed under the earlier
\* factor; a tool definition or a coordinate read afterwards is scaled by
\* the factor of the latest directive.
C15_UnitChangesFactorOnly ==
    [][ReadsLine =>
          /\ line'.kind = "METRIC" => factor' = 1000
          /\ line'.kind = "INCH" => factor' = 25400
          /\ line'.kind \in {"METRIC", "INCH"} =>
                /\ pc' = "scan"
                /\ fatal' = fatal
                /\ UNCHANGED <<tools, toolRadius, maxToolDiameter, holes,
                               leftEdge, rightEdge, topEdge, bottomEdge, out>>
          /\ line'.kind \notin {"METRIC", "INCH"} => factor' = factor
          /\ (line'.kind = "def" /\ pc' = "scan") =>
                /\ tools'[ToolKey(line'.digits)] = InMillimetres(line'.a, factor)
                /\ \A k \in DOMAIN tools \ {ToolKey(line'.digits)} :
                      tools'[k] = tools[k]
          /\ line'.kind = "coord" =>
                /\ holes'[Len(holes')].Cx = InMillimetres(line'.a, factor)
                /\ holes'[Len(holes')].Cy = InMillimetres(line'.b, factor)
      ]_vars

\* INCH has been read after a tool was defined, selected and used under
\* METRIC: the table still holds the diameter in METRIC scale.
C15_Witness ==
    /\ AtUnit
    /\ line.kind = "INCH"
    /\ factor = 25400
    /\ \E e \in defined : e.d = 3000 /\ tools[ToolKey(e.digits)] = 3000
    /\ maxToolDiameter = 3000
    /\ toolRadius > 0
    /\ Len(holes) >= 1
    /\ holes[1].Cx = 10000

\* The hole whose circles have just been written.
HoleDrawn == pc = "draw" /\ i = 0

\* Twice the inner and the outer end of the band the bit sweeps along the
\* k-th circle written for the hole, counted from the innermost.
BandLow2(k) == 2 * Drawn_r(k) - bitSize
BandHigh2(k) == 2 * Drawn_r(k) + bitSize

\* C16: for a hole of cut radius R > 0, made by a tool of diameter d, the
\* bands [r - B/2, r + B/2] of its circles cover [0, d/2]: the innermost
\* band reaches the centre, each band overlaps the one inside it by more
\* than B/2, and the outermost band ends at d/2.
C16_BandsCoverHole ==
    (HoleDrawn /\ holes[next].Radius > 0) =>
       /\ Drawn_n >= 1
       /\ BandLow2(1) <= 0
       /\ \A k \in 1..(Drawn_n - 1) :
             /\ Drawn_r(k) < Drawn_r(k + 1)
             /\ BandHigh2(k) - BandLow2(k + 1) > bitSize
       /\ \E e \in defined :
             /\ e.d > bitSize
             /\ 2 * holes[next].Radius = e.d - bitSize
             /\ BandHigh2(Drawn_n) = e.d

\* A hole with at least three circles has been written.
C16_Witness ==
    /\ HoleDrawn
    /\ holes[next].Radius > 0
    /\ Drawn_n >= 3
    /\ BandLow2(1) < 0
    /\ BandLow2(2) > 0

\* The program runs on until it exits: some step is taken whenever one is
\* possible.  The input is finite (Scan stops at MaxLines).
FairSpec == Spec /\ WF_vars(Next)

Terminated == pc \in {"done", "fatal"}

\* C17: a run ends.  Every step of the scan loop consumes one line; the
\* radius loop of a hole of cut radius R collects at most
\* ceil(R / (0.45 B)) radii, none when R <= 0; and the run reaches its end
\* or a fatal exit.
C17_Terminates ==
    /\ [][(pc = "scan" /\ pc' # "open") => nlines' = nlines + 1]_vars
    /\ [](pc \in {"radii", "draw"} =>
             Len(radii) <= NumCircles(holes[next].Radius, StepLength))
    /\ [](pc = "done" =>
             Len(out) <= 2 + Len(CirclesUpTo(Len(holes))))
    /\ <>Terminated

\* A run has ended after writing a hole without circles and a hole with
\* several.
C17_Witness ==
    /\ pc = "done"
    /\ nlines >= 4
    /\ \E k \in HoleIndices : holes[k].Radius <= 0
    /\ \E k \in HoleIndices : NumCircles(holes[k].Radius, StepLength) >= 3
    /\ Len(out) >= 5

\* A unit directive came before the first tool definition: the raw
\* diameters of the input are positive and factor never returns to 0, so
\* this is the case exactly when no accepted definition was scaled to 0.
UnitBeforeFirstDef == \A e \in defined : e.d > 0

\* C18: with B > 0 and a unit directive before the first tool definition,
\* the cut radius and the radius of every hole are never negative, the
\* extent before the margin has left <= right and top <= bottom, and the
\* viewport written has width and height >= 0.
C18_NonNegativeGeometry ==
    (bitSize > 0 /\ UnitBeforeFirstDef) =>
       /\ toolRadius >= 0
       /\ \A k \in HoleIndices : holes[k].Radius >= 0
       /\ pc = "scan" => leftEdge <= rightEdge /\ topEdge <= bottomEdge
       /\ Len(out) >= 1 => /\ out[1].call = "StartviewUnit"
                           /\ out[1].w >= 0 /\ out[1].h >= 0
                           /\ out[1].vw >= 0 /\ out[1].vh >= 0

\* A run with METRIC before its definitions has written its viewport and
\* the circles of a hole.
C18_Witness ==
    /\ pc = "done"
    /\ defined # {}
    /\ UnitBeforeFirstDef
    /\ toolRadius > 0
    /\ Len(holes) >= 2
    /\ out[1].vw > 0
    /\ leftEdge < 0

----------------------------------------------------------------------------
\* Two executions of the program on one input file.

\* The lines such a file is made of: METRIC, INCH, T1C1.0, T1, T2, X10Y10
\* and X-2Y3.
FileLines ==
    {l \in Lines :
        \/ l.kind \in {"METRIC", "INCH", "coord"}
        \/ l.kind = "def" /\ l.digits = <<1>> /\ l.a = 1000
        \/ l.kind = "bare" /\ l.digits \in {<<1>>, <<2>>}}

\* The input files given to both executions.
Files == UNION {[1..n -> FileLines] : n \in 0..MaxFile}

\* Lines 54-57: sc.Scan delivers the next line of the file.
FromFile(l) == nlines < Len(file) /\ l = file[nlines + 1]

\* Line 54: sc.Scan returns false at the end of the file.
AtEndOfFile == nlines = Len(file)

\* Line 120: os.Create(*dest) fails or succeeds as the file system decides.
\* Both executions name the same destination in the same file system, and
\* a file that os.Create made can be made again (it is truncated): the
\* second call ends as the first did.
CreateAsBefore(failed) == run = 2 => (firstRun.fatal = "create") = failed

\* Lines 35-50, with the file chosen.
TwoRunsInit ==
    /\ bitSize \in BitSizes
    /\ factor = 0
    /\ tools = <<>>
    /\ toolRadius = 0
    /\ maxToolDiameter = 0
    /\ holes = <<>>
    /\ leftEdge = 0 /\ rightEdge = 0 /\ topEdge = 0 /\ bottomEdge = 0
    /\ pc = "scan"
    /\ fatal = "none"
    /\ next = 1
    /\ radii = <<>>
    /\ dr = 0
    /\ i = 0
    /\ out = <<>>
    /\ line = NoLine
    /\ nlines = 0
    /\ defined = {}
    /\ run = 1
    /\ file \in Files
    /\ firstRun = NoOutcome

\* A faulty Restart: the tool table of the first execution is still there
\* when the second starts.
RestartKeepsTools ==
    /\ run = 1
    /\ pc \in {"done", "fatal"}
    /\ firstRun' = Outcome
    /\ run' = 2
    /\ factor' = 0
    /\ toolRadius' = 0
    /\ maxToolDiameter' = 0
    /\ holes' = <<>>
    /\ leftEdge' = 0 /\ rightEdge' = 0 /\ topEdge' = 0 /\ bottomEdge' = 0
    /\ pc' = "scan"
    /\ fatal' = "none"
    /\ next' = 1
    /\ radii' = <<>>
    /\ dr' = 0
    /\ i' = 0
    /\ out' = <<>>
    /\ line' = NoLine
    /\ nlines' = 0
    /\ defined' = {}
    /\ UNCHANGED <<bitSize, file, tools>>

\* The program is started again with the same --bit-size on the same file:
\* a new process, whose main declares its variables anew (lines 35-50).
Restart ==
    /\ run = 1
    /\ pc \in {"done", "fatal"}
    /\ firstRun' = Outcome
    /\ run' = 2
    /\ factor' = 0
    /\ tools' = <<>>
    /\ toolRadius' = 0
    /\ maxToolDiameter' = 0
    /\ holes' = <<>>
    /\ leftEdge' = 0 /\ rightEdge' = 0 /\ topEdge' = 0 /\ bottomEdge' = 0
    /\ pc' = "scan"
    /\ fatal' = "none"
    /\ next' = 1
    /\ radii' = <<>>
    /\ dr' = 0
    /\ i' = 0
    /\ out' = <<>>
    /\ line' = NoLine
    /\ nlines' = 0
    /\ defined' = {}
    /\ UNCHANGED <<bitSize, file>>

TwoRunsNext ==
    \/ \E l \in Lines : FromFile(l) /\ Metric(l)
    \/ \E l \in Lines : FromFile(l) /\ Inch(l)
    \/ \E l \in Lines : FromFile(l) /\ ToolDef(l)
    \/ \E l \in Lines : FromFile(l) /\ ToolSelect(l)
    \/ \E l \in Lines : FromFile(l) /\ Coordinate(l)
    \/ \E l \in Lines : FromFile(l) /\ Ignored(l)
    \/ AtEndOfFile /\ EndOfInput
    \/ CreateAsBefore(TRUE) /\ CreateFail
    \/ CreateAsBefore(FALSE) /\ Startview
    \/ NextHole
    \/ RadiusStep
    \/ RadiiDone
    \/ Draw
    \/ DrawDone
    \/ End
    \/ Restart

TwoRuns == TwoRunsInit /\ [][TwoRunsNext]_vars

SecondRunEnded == run = 2 /\ pc \in {"done", "fatal"}

====
